---- MODULE Spec2Model ----
(***************************************************************************)
(* Model of the nezoba controller firmware (src/src/board): the main       *)
(* control loop of main_loop.h with the HANDLE_KEY macro of key_handler.h, *)
(* over the globals of globals.h and the key tables of keys.h.             *)
(*                                                                         *)
(* One iteration of the loop ("tick") is the sequence of steps             *)
(*   Begin (lines 1-14)  ReadInputs (16-46)  Dispatch (48-67)              *)
(*   Socd (69-98)  Send (100-104)                                          *)
(* taken in this order by the single thread of control; pc names the next  *)
(* step.  millis() returns a non-decreasing number of milliseconds, and    *)
(* the two MCP registers return whatever the switches show when read.      *)
(***************************************************************************)
EXTENDS Integers, Sequences, FiniteSets, TLC

VARIABLES
    pc,                         \* next step of the loop
    now,                        \* the value millis() returned last
    CFG, KEY1, KEY2, KEY3,      \* configuration number and active slot tables
    TT, last_toggle_time,       \* turbo toggle
    GPIOA_state, GPIOA_previous, GPIOA_last_debounce_time,
    GPIOB_state, GPIOB_previous, GPIOB_last_debounce_time,
    reading_gpioa, reading_gpiob,   \* locals of the loop body
    dpad_x, dpad_y,                 \* locals of the loop body
    buttons,                    \* NSGamepad: the buttons held in its report
    switches,                   \* the buttons the player operates
    calls,                      \* NSGamepad calls made by the current tick
    trainA, trainB,             \* history: the run of raw changes in progress
    setup_locals,               \* locals of setup(): cfg1, cfg2, cfg3, _cfg4, __cfg4
    last,                       \* history: what the tick before saw and sent
    cfg4_reads,                 \* history: the bytes the cfg4 loop of setup() has read
    true_since                  \* history: the true time since each timer was set

vars == <<pc, now, CFG, KEY1, KEY2, KEY3, TT, last_toggle_time,
          GPIOA_state, GPIOA_previous, GPIOA_last_debounce_time,
          GPIOB_state, GPIOB_previous, GPIOB_last_debounce_time,
          reading_gpioa, reading_gpiob, dpad_x, dpad_y, buttons, calls,
          switches, trainA, trainB, setup_locals, last, cfg4_reads, true_since>>

(***************************************************************************)
(* Bounds of the model.                                                    *)
(***************************************************************************)
\* millis() is not modelled beyond this value: no tick starts after it
MaxTime == 30
\* the run of consecutive raw changes of a group is counted up to this length
MaxTrain == 2
\* the width of the clock where it wraps around: millis() counts modulo this
\* value (modulo 2^32 on the board)
ClockWrap == 32

(***************************************************************************)
(* keys.h                                                                  *)
(***************************************************************************)
N_BUTTONS == 15
N_KEYS == 42
N_KEYS_PER_BUTTON == 3
N_REMAPPINGS == 16

K_NOOP == 0
K_DP_UP == 1
K_DP_UP_RIGHT == 2
K_DP_RIGHT == 3
K_DP_DOWN_RIGHT == 4
K_DP_DOWN == 5
K_DP_DOWN_LEFT == 6
K_DP_LEFT == 7
K_DP_UP_LEFT == 8
K_DP_CENTER == 9
K_A == 10
K_B == 11
K_X == 12
K_Y == 13
K_L == 14
K_R == 15
K_ZL == 16
K_ZR == 17
K_HOME == 18
K_PLUS == 19
K_MINUS == 20
K_LS_PRESS == 21
K_RS_PRESS == 22
K_CAPTURE == 23
K_LS_UP == 24
K_RS_CENTER == 41

IS_NOOP(K) == K = K_NOOP
\* an IS_BUTTON without its upper bound
IS_BUTTONNoUpper(K) == K_A <= K

IS_BUTTON(K) == K_A <= K /\ K <= K_CAPTURE
IS_DP(K) == K_DP_UP <= K /\ K <= K_DP_CENTER

Buttons == 0 .. (N_BUTTONS - 1)

\* the remap tables: one row of N_KEYS_PER_BUTTON * N_BUTTONS keys each,
\* written here as a sequence (index 3*b + s, s in 1..3, for slot s of button b)
remap00 ==
    << K_DP_LEFT, K_NOOP, K_NOOP,   K_DP_DOWN, K_NOOP, K_NOOP,
       K_DP_RIGHT, K_NOOP, K_NOOP,  K_DP_UP, K_NOOP, K_NOOP,
       K_Y, K_NOOP, K_NOOP,         K_B, K_NOOP, K_NOOP,
       K_R, K_NOOP, K_NOOP,         K_ZL, K_NOOP, K_NOOP,
       K_L, K_NOOP, K_NOOP,         K_X, K_NOOP, K_NOOP,
       K_A, K_NOOP, K_NOOP,         K_ZR, K_NOOP, K_NOOP,
       K_MINUS, K_NOOP, K_NOOP,     K_PLUS, K_NOOP, K_NOOP,
       K_HOME, K_NOOP, K_NOOP >>

remap01 ==
    << K_DP_LEFT, K_NOOP, K_NOOP,   K_DP_DOWN, K_NOOP, K_NOOP,
       K_DP_RIGHT, K_NOOP, K_NOOP,  K_DP_UP, K_NOOP, K_NOOP,
       K_B, K_NOOP, K_NOOP,         K_Y, K_NOOP, K_NOOP,
       K_R, K_NOOP, K_NOOP,         K_ZL, K_NOOP, K_NOOP,
       K_L, K_NOOP, K_NOOP,         K_X, K_NOOP, K_NOOP,
       K_A, K_NOOP, K_NOOP,         K_ZR, K_NOOP, K_NOOP,
       K_MINUS, K_NOOP, K_NOOP,     K_PLUS, K_NOOP, K_NOOP,
       K_HOME, K_NOOP, K_NOOP >>

remap02 ==
    << K_DP_LEFT, K_NOOP, K_NOOP,   K_DP_DOWN, K_NOOP, K_NOOP,
       K_DP_RIGHT, K_NOOP, K_NOOP,  K_DP_UP, K_NOOP, K_NOOP,
       K_Y, K_NOOP, K_NOOP,         K_B, K_NOOP, K_NOOP,
       K_R, K_NOOP, K_NOOP,         K_L, K_NOOP, K_NOOP,
       -K_X, K_NOOP, K_NOOP,        -K_A, K_NOOP, K_NOOP,
       K_ZL, K_NOOP, K_NOOP,        K_ZR, K_NOOP, K_NOOP,
       K_MINUS, K_NOOP, K_NOOP,     K_PLUS, K_NOOP, K_NOOP,
       K_HOME, K_NOOP, K_NOOP >>

remap03 ==
    << K_DP_LEFT, K_NOOP, K_NOOP,   K_DP_DOWN, K_NOOP, K_NOOP,
       K_DP_RIGHT, K_NOOP, K_NOOP,  K_DP_UP, K_NOOP, K_NOOP,
       K_Y, K_NOOP, K_NOOP,         K_B, K_NOOP, K_NOOP,
       K_L, K_NOOP, K_NOOP,         K_L, K_R, K_NOOP,
       -K_X, K_NOOP, K_NOOP,        -K_A, K_NOOP, K_NOOP,
       K_X, K_NOOP, K_NOOP,         K_A, K_NOOP, K_NOOP,
       K_MINUS, K_NOOP, K_NOOP,     K_PLUS, K_NOOP, K_NOOP,
       K_HOME, K_NOOP, K_NOOP >>

remap04 ==
    << K_DP_LEFT, K_NOOP, K_NOOP,   K_DP_DOWN, K_NOOP, K_NOOP,
       K_DP_RIGHT, K_NOOP, K_NOOP,  K_DP_UP, K_NOOP, K_NOOP,
       K_Y, K_NOOP, K_NOOP,         K_B, K_NOOP, K_NOOP,
       K_A, K_NOOP, K_NOOP,         K_ZL, K_NOOP, K_NOOP,
       K_A, K_NOOP, K_NOOP,         K_X, K_NOOP, K_NOOP,
       K_B, K_NOOP, K_NOOP,         K_ZR, K_NOOP, K_NOOP,
       K_MINUS, K_NOOP, K_NOOP,     K_PLUS, K_NOOP, K_NOOP,
       K_HOME, K_NOOP, K_NOOP >>

remap05 ==
    << K_DP_LEFT, K_NOOP, K_NOOP,   K_DP_DOWN, K_NOOP, K_NOOP,
       K_DP_RIGHT, K_NOOP, K_NOOP,  K_DP_UP, K_NOOP, K_NOOP,
       K_X, K_NOOP, K_NOOP,         K_Y, K_NOOP, K_NOOP,
       K_ZL, K_NOOP, K_NOOP,        K_ZR, K_NOOP, K_NOOP,
       K_A, K_NOOP, K_NOOP,         K_B, K_NOOP, K_NOOP,
       K_L, K_NOOP, K_NOOP,         K_R, K_NOOP, K_NOOP,
       K_MINUS, K_NOOP, K_NOOP,     K_PLUS, K_NOOP, K_NOOP,
       K_HOME, K_NOOP, K_NOOP >>

remap06 ==
    << K_DP_LEFT, K_NOOP, K_NOOP,   K_DP_DOWN, K_NOOP, K_NOOP,
       K_DP_RIGHT, K_NOOP, K_NOOP,  K_DP_UP, K_NOOP, K_NOOP,
       K_Y, K_NOOP, K_NOOP,         K_X, K_NOOP, K_NOOP,
       K_ZL, K_NOOP, K_NOOP,        K_ZR, K_NOOP, K_NOOP,
       K_B, K_NOOP, K_NOOP,         K_A, K_NOOP, K_NOOP,
       K_L, K_NOOP, K_NOOP,         K_R, K_NOOP, K_NOOP,
       K_MINUS, K_NOOP, K_NOOP,     K_PLUS, K_NOOP, K_NOOP,
       K_HOME, K_NOOP, K_NOOP >>

remap07 ==
    << K_DP_LEFT, K_NOOP, K_NOOP,   K_DP_DOWN, K_NOOP, K_NOOP,
       K_DP_RIGHT, K_NOOP, K_NOOP,  K_DP_UP, K_NOOP, K_NOOP,
       K_X, K_NOOP, K_NOOP,         K_A, K_NOOP, K_NOOP,
       K_B, K_A, K_NOOP,            K_L, K_NOOP, K_NOOP,
       K_B, K_NOOP, K_NOOP,         K_Y, K_NOOP, K_NOOP,
       K_A, K_NOOP, K_NOOP,         K_B, K_NOOP, K_NOOP,
       K_MINUS, K_NOOP, K_NOOP,     K_PLUS, K_NOOP, K_NOOP,
       K_HOME, K_NOOP, K_NOOP >>

remap08 ==
    << K_DP_LEFT, K_NOOP, K_NOOP,   K_DP_DOWN, K_NOOP, K_NOOP,
       K_DP_RIGHT, K_NOOP, K_NOOP,  K_DP_UP, K_NOOP, K_NOOP,
       K_B, K_NOOP, K_NOOP,         K_ZR, K_NOOP, K_NOOP,
       K_A, K_NOOP, K_NOOP,         K_L, K_NOOP, K_NOOP,
       K_A, K_NOOP, K_NOOP,         K_X, K_NOOP, K_NOOP,
       K_Y, K_NOOP, K_NOOP,         K_R, K_NOOP, K_NOOP,
       K_MINUS, K_NOOP, K_NOOP,     K_PLUS, K_NOOP, K_NOOP,
       K_HOME, K_NOOP, K_NOOP >>

\* a remap10 whose last combo slot (button 8) is down instead of up
remap10DownLast ==
    << K_DP_LEFT, K_NOOP, K_NOOP,   K_DP_DOWN, K_NOOP, K_NOOP,
       K_DP_RIGHT, K_NOOP, K_NOOP,  K_DP_UP, K_NOOP, K_NOOP,
       K_B, K_NOOP, K_NOOP,         K_Y, K_NOOP, K_NOOP,
       K_ZL, K_NOOP, K_NOOP,        K_L, K_DP_UP, K_NOOP,
       K_A, K_DP_DOWN, K_NOOP,      K_X, K_NOOP, K_NOOP,
       K_A, K_NOOP, K_NOOP,         K_R, K_NOOP, K_NOOP,
       K_MINUS, K_NOOP, K_NOOP,     K_PLUS, K_NOOP, K_NOOP,
       K_HOME, K_NOOP, K_NOOP >>

remap10 ==
    << K_DP_LEFT, K_NOOP, K_NOOP,   K_DP_DOWN, K_NOOP, K_NOOP,
       K_DP_RIGHT, K_NOOP, K_NOOP,  K_DP_UP, K_NOOP, K_NOOP,
       K_B, K_NOOP, K_NOOP,         K_Y, K_NOOP, K_NOOP,
       K_ZL, K_NOOP, K_NOOP,        K_L, K_DP_UP, K_NOOP,
       K_A, K_DP_UP, K_NOOP,        K_X, K_NOOP, K_NOOP,
       K_A, K_NOOP, K_NOOP,         K_R, K_NOOP, K_NOOP,
       K_MINUS, K_NOOP, K_NOOP,     K_PLUS, K_NOOP, K_NOOP,
       K_HOME, K_NOOP, K_NOOP >>


\* the rows of MAPPINGS whose remap files are in the source
KnownCfg == {0, 1, 2, 3, 4, 5, 6, 7, 8, 10}

\* The rows 9 and 11..15 of MAPPINGS are included from files that are not part
\* of the source at hand: their content is an input of the model.  A missing
\* row is "NS plain" (remap05) with the three slots of button CustomButton
\* replaced by one of CustomSlots.
CustomButton == 4

CustomSlots ==
    { <<k1, k2, k3>> :
        k1 \in {K_NOOP, K_DP_UP, K_DP_UP_RIGHT, -K_DP_LEFT, -K_A, K_DP_CENTER, -K_LS_UP},
        k2 \in {K_NOOP, K_DP_UP, -K_B},
        k3 \in {K_NOOP, K_DP_DOWN, K_X} }

CustomRow(t) ==
    [i \in 1 .. (N_KEYS_PER_BUTTON * N_BUTTONS) |->
        IF (i - 1) \div N_KEYS_PER_BUTTON = CustomButton
        THEN t[((i - 1) % N_KEYS_PER_BUTTON) + 1]
        ELSE remap05[i]]

MissingRows == { CustomRow(t) : t \in CustomSlots }

\* MAPPINGS[c]: the rows a configuration number can select
MAPPINGS(c) ==
    CASE c = 0 -> {remap00}
      [] c = 1 -> {remap01}
      [] c = 2 -> {remap02}
      [] c = 3 -> {remap03}
      [] c = 4 -> {remap04}
      [] c = 5 -> {remap05}
      [] c = 6 -> {remap06}
      [] c = 7 -> {remap07}
      [] c = 8 -> {remap08}
      [] c = 10 -> {remap10}
      [] OTHER -> MissingRows

(***************************************************************************)
(* globals.h                                                               *)
(***************************************************************************)
\* TURBO_PERIOD is (1.6*1000.0/120.0) = 40/3 ms, compared with a whole number
\* of milliseconds
TURBO_PERIOD_NUM == 40
TURBO_PERIOD_DEN == 3
DEBOUNCING == 5
P_CFG_4 == 14

BUTTON2MCP == << 11, 12, 13, 7, 0, 1, 2, 8, 3, 4, 5, 6, 9, 10, 15 >>

PadNames ==
    << "NSGAMEPAD_DPAD_UP", "NSGAMEPAD_DPAD_UP_RIGHT", "NSGAMEPAD_DPAD_RIGHT",
       "NSGAMEPAD_DPAD_DOWN_RIGHT", "NSGAMEPAD_DPAD_DOWN",
       "NSGAMEPAD_DPAD_DOWN_LEFT", "NSGAMEPAD_DPAD_LEFT",
       "NSGAMEPAD_DPAD_UP_LEFT", "NSGAMEPAD_DPAD_CENTERED",
       "NSButton_A", "NSButton_B", "NSButton_X", "NSButton_Y",
       "NSButton_LeftTrigger", "NSButton_RightTrigger",
       "NSButton_LeftThrottle", "NSButton_RightThrottle",
       "NSButton_Home", "NSButton_Plus", "NSButton_Minus",
       "NSButton_LeftStick", "NSButton_RightStick", "NSButton_Capture" >>

\* KEYS2PAD[k]: entry 0 and the entries past the initialiser are 0
KEYS2PAD(k) == IF 1 <= k /\ k <= Len(PadNames) THEN PadNames[k] ELSE "0"

(***************************************************************************)
(* mcp.h                                                                   *)
(***************************************************************************)
IS_GPIOA_PIN(PIN) == 0 <= PIN /\ PIN < 8

PIN2BITMASK(PIN) == IF IS_GPIOA_PIN(PIN) THEN 2 ^ PIN ELSE 2 ^ (PIN - 8)

\* (byte & mask) == 0x00, for a mask of one bit
BitIsZero(byte, mask) == (byte \div mask) % 2 = 0

(***************************************************************************)
(* The environment: the clock and the switches.                            *)
(***************************************************************************)
\* millis() after it returned t: t plus one of the steps, up to MaxTime
Millis(t, steps) == { t + d : d \in steps } \cap (0 .. MaxTime)

\* millis() of a clock that wraps around
MillisWrap(t, steps) == { (t + d) % ClockWrap : d \in steps }

\* the clock of a specification: wrapping, or stopped at MaxTime
Clock(wrap, t, steps) == IF wrap THEN MillisWrap(t, steps) ELSE Millis(t, steps)

\* a difference computed in signed integers, without the cast
ElapsedSigned(a, b) == a - b

\* (unsigned long) (a - b): the unsigned difference, of the width of the clock
Elapsed(a, b) == (a - b) % ClockWrap

RECURSIVE MaskSum(_)
MaskSum(pins) ==
    IF pins = {} THEN 0
    ELSE LET p == CHOOSE q \in pins : TRUE
         IN  PIN2BITMASK(p) + MaskSum(pins \ {p})

\* the registers of the MCP when exactly the buttons of S are held down (a bit
\* is 0 iff its switch is closed); bit 6 of GPIOB is the 4th configuration
\* switch, which is closed iff the configuration number is odd
RegisterA(S) == 255 - MaskSum({ BUTTON2MCP[b + 1] : b \in { c \in S : IS_GPIOA_PIN(BUTTON2MCP[c + 1]) } })

RegisterB(S, cfg) ==
    255 - MaskSum({ BUTTON2MCP[b + 1] : b \in { c \in S : ~IS_GPIOA_PIN(BUTTON2MCP[c + 1]) } }
                  \cup (IF cfg % 2 = 1 THEN {P_CFG_4} ELSE {}))

(***************************************************************************)
(* key_handler.h: HANDLE_KEY                                               *)
(***************************************************************************)
Call(f, arg, b, s) == [f |-> f, arg |-> arg, b |-> b, s |-> s]

\* a HANDLE_KEY that presses a turbo-flagged key whatever the turbo toggle is
PressDueIgnoringTurbo(turboed, k, tt) == IS_BUTTON(k)

\* a HANDLE_KEY that samples a turbo toggle which flips from one key to the
\* next: the keys of even number see tt, the others its complement
PressDueResampled(turboed, k, tt) == (~turboed \/ (tt <=> k % 2 = 0)) /\ IS_BUTTON(k)

\* a HANDLE_KEY that takes K_NOOP for an ordinary button
PressDueOnNoop(turboed, k, tt) == (~turboed \/ tt) /\ (IS_BUTTON(k) \/ IS_NOOP(k))

\* line 9: the condition of the press
PressDue(turboed, k, tt) == (~turboed \/ tt) /\ IS_BUTTON(k)

\* a HANDLE_KEY that applies the turbo flag to the directions as well
DpadDueWithTurbo(turboed, k, tt) == (~turboed \/ tt) /\ IS_DP(k)

\* line 11: the condition of the D-pad branch, reached when PressDue is false
DpadDue(turboed, k, tt) == IS_DP(k)

\* a switch whose case K_DP_LEFT lacks its break and falls through to the case
\* K_DP_RIGHT
DpadDeltaFallThrough(k) ==
    CASE k = K_DP_UP         -> << 0, 1 >>
      [] k = K_DP_DOWN       -> << 0, -1 >>
      [] k = K_DP_LEFT       -> << 0, 0 >>
      [] k = K_DP_RIGHT      -> << 1, 0 >>
      [] k = K_DP_UP_RIGHT   -> << 1, 1 >>
      [] k = K_DP_DOWN_RIGHT -> << 1, -1 >>
      [] k = K_DP_UP_LEFT    -> << -1, 1 >>
      [] k = K_DP_DOWN_LEFT  -> << -1, -1 >>
      [] OTHER               -> << 0, 0 >>

\* lines 13-22: the switch; <<increment of dpad_x, increment of dpad_y>>
DpadDelta(k) ==
    CASE k = K_DP_UP         -> << 0, 1 >>
      [] k = K_DP_DOWN       -> << 0, -1 >>
      [] k = K_DP_LEFT       -> << -1, 0 >>
      [] k = K_DP_RIGHT      -> << 1, 0 >>
      [] k = K_DP_UP_RIGHT   -> << 1, 1 >>
      [] k = K_DP_DOWN_RIGHT -> << 1, -1 >>
      [] k = K_DP_UP_LEFT    -> << -1, 1 >>
      [] k = K_DP_DOWN_LEFT  -> << -1, -1 >>
      [] OTHER               -> << 0, 0 >>

\* a HANDLE_KEY whose clamping statements lack their else branch
ClampUpperOnly(v) == IF v > 1 THEN 1 ELSE v

\* a HANDLE_KEY without the two clamping statements
ClampMissing(v) == v

\* lines 23-24
Clamp(v) == IF v > 1 THEN 1 ELSE IF v < -1 THEN -1 ELSE v

\* a HANDLE_KEY whose line 7 negates the entry of the table in place
KeyAfterNegated(k0) == IF k0 < 0 THEN -k0 ELSE k0

\* lines 2 and 7: the entry of the table after the expansion; the key is
\* copied to the local _k and the negation of line 7 assigns the local
KeyAfter(k0) == k0

\* the table KEYID after HANDLE_KEY(KEYID, b) was expanded for the buttons of P
TableAfter(KEYID, P) == [b \in Buttons |-> IF b \in P THEN KeyAfter(KEYID[b]) ELSE KEYID[b]]

\* a loop that resolves the first slot of a button only: the expansions for
\* KEY2 and KEY3 do nothing
HANDLE_KEYFirstSlot(KEYID, s, B, tt, st) ==
    LET _k0 == KEYID[B]
        turboed == _k0 < 0
        _k == IF _k0 < 0 THEN -_k0 ELSE _k0
    IN  IF s # 1 THEN st
        ELSE IF PressDue(turboed, _k, tt)
        THEN [st EXCEPT !.held = @ \cup {KEYS2PAD(_k)},
                        !.log = Append(@, Call("press", KEYS2PAD(_k), B, s))]
        ELSE IF DpadDue(turboed, _k, tt)
        THEN [st EXCEPT !.x = Clamp(st.x + DpadDelta(_k)[1]),
                        !.y = Clamp(st.y + DpadDelta(_k)[2])]
        ELSE st

\* st = [x, y, held, log]: dpad_x, dpad_y, the buttons the gamepad holds, and
\* the calls made so far; s is the number of the slot table KEYID (1, 2 or 3)
HANDLE_KEY(KEYID, s, B, tt, st) ==
    LET _k0 == KEYID[B]
        turboed == _k0 < 0
        _k == IF _k0 < 0 THEN -_k0 ELSE _k0
    IN  IF PressDue(turboed, _k, tt)
        THEN [st EXCEPT !.held = @ \cup {KEYS2PAD(_k)},
                        !.log = Append(@, Call("press", KEYS2PAD(_k), B, s))]
        ELSE IF DpadDue(turboed, _k, tt)
        THEN [st EXCEPT !.x = Clamp(st.x + DpadDelta(_k)[1]),
                        !.y = Clamp(st.y + DpadDelta(_k)[2])]
        ELSE st

(***************************************************************************)
(* main_loop.h                                                             *)
(***************************************************************************)
\* a loop that does not release the buttons of the tick before
ReleaseNothing(held) == held

\* line 3: NSGamepad.releaseAll()
ReleaseAll(held) == {}

\* a loop that complements the turbo toggle in every iteration
ToggleDueAlways(elapsed) == TRUE

\* TURBO_PERIOD computed in integers: 1600/120 = 13
ToggleDueTruncated(elapsed) == elapsed >= 13

\* line 11: (unsigned long) (millis() - last_toggle_time) >= TURBO_PERIOD
ToggleDue(elapsed) == TURBO_PERIOD_DEN * elapsed >= TURBO_PERIOD_NUM

\* a loop without the assignments of lines 19 and 23
LatchReadMissing(state, reading) == state

\* lines 19 and 23: GPIOx_state = reading_gpiox
LatchRead(state, reading) == reading

\* a loop that re-arms the timer of a group when the reading differs from the
\* state of the group
ChangedFromState(reading, previous, state) == reading # state

\* lines 28 and 30: the test that re-arms the timer of a group; state is the
\* state of the group when the test is made
Changed(reading, previous, state) == reading # previous

\* lines 34-38 and 39-43: the state of a group after the debouncing block
Debounced(state, reading, elapsed) ==
    IF elapsed > DEBOUNCING /\ reading # state THEN reading ELSE state

\* a loop that tests the bit of every button in the state of group A
PressedOneRegister(b, stateA, stateB) ==
    BitIsZero(stateA, PIN2BITMASK(BUTTON2MCP[b + 1]))

\* lines 49-53: is button b pressed
Pressed(b, stateA, stateB) ==
    LET p == BUTTON2MCP[b + 1]
        _gpio == IF IS_GPIOA_PIN(p) THEN stateA ELSE stateB
    IN  BitIsZero(_gpio, PIN2BITMASK(p))

\* lines 48-67: the iterations b, b+1, ... of the loop over the buttons
RECURSIVE ButtonLoop(_, _, _, _, _, _, _, _)
ButtonLoop(b, st, stateA, stateB, tt, k1, k2, k3) ==
    IF b >= N_BUTTONS THEN st
    ELSE IF Pressed(b, stateA, stateB)
    THEN ButtonLoop(b + 1,
             HANDLE_KEY(k3, 3, b, tt,
                 HANDLE_KEY(k2, 2, b, tt,
                     HANDLE_KEY(k1, 1, b, tt, st))),
             stateA, stateB, tt, k1, k2, k3)
    ELSE ButtonLoop(b + 1, st, stateA, stateB, tt, k1, k2, k3)

\* an if/else chain without its last branch
SocdKeyShort(x, y) ==
    IF x = 0 /\ y = 0 THEN K_DP_CENTER
    ELSE IF x = 0 /\ y = 1 THEN K_DP_UP
    ELSE IF x = 1 /\ y = 1 THEN K_DP_UP_RIGHT
    ELSE IF x = 1 /\ y = 0 THEN K_DP_RIGHT
    ELSE IF x = 1 /\ y = -1 THEN K_DP_DOWN_RIGHT
    ELSE IF x = 0 /\ y = -1 THEN K_DP_DOWN
    ELSE IF x = -1 /\ y = -1 THEN K_DP_DOWN_LEFT
    ELSE IF x = -1 /\ y = 0 THEN K_DP_LEFT
    ELSE K_NOOP

\* an if/else chain without its first branch
SocdKeyNoCenter(x, y) ==
    IF x = 0 /\ y = 1 THEN K_DP_UP
    ELSE IF x = 1 /\ y = 1 THEN K_DP_UP_RIGHT
    ELSE IF x = 1 /\ y = 0 THEN K_DP_RIGHT
    ELSE IF x = 1 /\ y = -1 THEN K_DP_DOWN_RIGHT
    ELSE IF x = 0 /\ y = -1 THEN K_DP_DOWN
    ELSE IF x = -1 /\ y = -1 THEN K_DP_DOWN_LEFT
    ELSE IF x = -1 /\ y = 0 THEN K_DP_LEFT
    ELSE IF x = -1 /\ y = 1 THEN K_DP_UP_LEFT
    ELSE K_NOOP

\* lines 71-98: the key whose direction the if/else chain sets, K_NOOP when no
\* branch is taken
SocdKey(x, y) ==
    IF x = 0 /\ y = 0 THEN K_DP_CENTER
    ELSE IF x = 0 /\ y = 1 THEN K_DP_UP
    ELSE IF x = 1 /\ y = 1 THEN K_DP_UP_RIGHT
    ELSE IF x = 1 /\ y = 0 THEN K_DP_RIGHT
    ELSE IF x = 1 /\ y = -1 THEN K_DP_DOWN_RIGHT
    ELSE IF x = 0 /\ y = -1 THEN K_DP_DOWN
    ELSE IF x = -1 /\ y = -1 THEN K_DP_DOWN_LEFT
    ELSE IF x = -1 /\ y = 0 THEN K_DP_LEFT
    ELSE IF x = -1 /\ y = 1 THEN K_DP_UP_LEFT
    ELSE K_NOOP

\* history: the run of consecutive ticks in which the raw reading of a group
\* differed from the reading before; raw and st are the reading and the state
\* of the group before the run began
TrainStep(train, changed, previous, state, reading, newstate) ==
    IF changed
    THEN IF train.len = 0
         THEN [len |-> 1, raw |-> previous, st |-> state]
         ELSE [train EXCEPT !.len = IF @ < MaxTrain THEN @ + 1 ELSE @]
    ELSE [len |-> 0, raw |-> reading, st |-> newstate]

\* history: no tick has been completed
NoTick == [ticks |-> 0, stateA |-> 255, stateB |-> 255, tt |-> FALSE, held |-> {}, log |-> << >>]

\* history: the true time since the turbo toggle and the debounce timers of the
\* two groups were set, when all three were set t ms ago
SinceBoot(t) == [toggle |-> t, A |-> t, B |-> t, at11 |-> t, from |-> 0]

\* history: a true time, counted up to ClockWrap
Sat(v) == IF v > ClockWrap THEN ClockWrap ELSE v

\* history: the milliseconds from a value of millis() to a later one, less than
\* ClockWrap apart
Passed(t, u) == (u - t) % ClockWrap

\* history: d more milliseconds have passed since each timer was set
Later(ts, d) ==
    [ts EXCEPT !.toggle = Sat(@ + d), !.A = Sat(@ + d), !.B = Sat(@ + d)]

\* history: the test of line 11, made with last_toggle_time = ltt
Tested(ts, ltt) == [ts EXCEPT !.at11 = ts.toggle, !.from = ltt]

\* the locals of setup() when setup() is not running
NoLocals == [cfg1 |-> FALSE, cfg2 |-> FALSE, cfg3 |-> FALSE, _cfg4 |-> 0, __cfg4 |-> 0]

(***************************************************************************)
(* The state after setup() for the configuration numbers of cfgs.          *)
(***************************************************************************)
InitWith(cfgs, players) ==
    /\ pc = "begin"
    /\ switches \in players
    /\ now = DEBOUNCING
    /\ CFG \in cfgs
    /\ \E row \in MAPPINGS(CFG) :
          /\ KEY1 = [b \in Buttons |-> row[3 * b + 1]]
          /\ KEY2 = [b \in Buttons |-> row[3 * b + 2]]
          /\ KEY3 = [b \in Buttons |-> row[3 * b + 3]]
    /\ TT = FALSE
    /\ last_toggle_time = 0
    /\ GPIOA_state = 255 /\ GPIOA_previous = 255 /\ GPIOA_last_debounce_time = 0
    /\ GPIOB_state = 255 /\ GPIOB_previous = 255 /\ GPIOB_last_debounce_time = 0
    /\ reading_gpioa = 255 /\ reading_gpiob = 255
    /\ dpad_x = 0 /\ dpad_y = 0
    /\ buttons = {}
    /\ calls = << >>
    /\ trainA = [len |-> 0, raw |-> 255, st |-> 255]
    /\ trainB = [len |-> 0, raw |-> 255, st |-> 255]
    /\ setup_locals = NoLocals
    /\ last = NoTick
    /\ cfg4_reads = << >>
    /\ true_since = SinceBoot(now)

(***************************************************************************)
(* setup.h                                                                 *)
(***************************************************************************)
\* a bool converted to int
BoolToInt(v) == IF v THEN 1 ELSE 0

\* a setup that shifts the first configuration bit by 4
SetupCFGWide(cfg1, cfg2, cfg3, cfg4) ==
    16 * BoolToInt(cfg1) + 4 * BoolToInt(cfg2) + 2 * BoolToInt(cfg3) + BoolToInt(cfg4)

\* a setup that takes the configuration bits in the opposite order
SetupCFGReversed(cfg1, cfg2, cfg3, cfg4) ==
    8 * BoolToInt(cfg4) + 4 * BoolToInt(cfg3) + 2 * BoolToInt(cfg2) + BoolToInt(cfg1)

\* line 44: (cfg1 << 3) + (cfg2 << 2) + (cfg3 << 1) + cfg4
SetupCFG(cfg1, cfg2, cfg3, cfg4) ==
    8 * BoolToInt(cfg1) + 4 * BoolToInt(cfg2) + 2 * BoolToInt(cfg3) + BoolToInt(cfg4)

\* the state when setup() begins: the globals have their initial values, the
\* statically allocated CFG, KEY1, KEY2 and KEY3 are zero
InitSetup(players) ==
    /\ pc = "setup"
    /\ switches \in players
    /\ now = 0
    /\ CFG = 0
    /\ KEY1 = [b \in Buttons |-> 0]
    /\ KEY2 = [b \in Buttons |-> 0]
    /\ KEY3 = [b \in Buttons |-> 0]
    /\ TT = FALSE
    /\ last_toggle_time = 0
    /\ GPIOA_state = 255 /\ GPIOA_previous = 255 /\ GPIOA_last_debounce_time = 0
    /\ GPIOB_state = 255 /\ GPIOB_previous = 255 /\ GPIOB_last_debounce_time = 0
    /\ reading_gpioa = 255 /\ reading_gpiob = 255
    /\ dpad_x = 0 /\ dpad_y = 0
    /\ buttons = {}
    /\ calls = << >>
    /\ trainA = [len |-> 0, raw |-> 255, st |-> 255]
    /\ trainB = [len |-> 0, raw |-> 255, st |-> 255]
    /\ setup_locals = NoLocals
    /\ last = NoTick
    /\ cfg4_reads = << >>
    /\ true_since = SinceBoot(now)

\* lines 1-31: read the three configuration pins of the board; a pin is LOW
\* when its switch is on
SetupPins ==
    /\ pc = "setup"
    /\ \E cfg1 \in BOOLEAN, cfg2 \in BOOLEAN, cfg3 \in BOOLEAN :
          setup_locals' = [cfg1 |-> cfg1, cfg2 |-> cfg2, cfg3 |-> cfg3,
                           _cfg4 |-> 0, __cfg4 |-> 0]
    /\ pc' = "cfg4"
    /\ UNCHANGED <<now, CFG, KEY1, KEY2, KEY3, TT, last_toggle_time,
                   GPIOA_state, GPIOA_previous, GPIOA_last_debounce_time,
                   GPIOB_state, GPIOB_previous, GPIOB_last_debounce_time,
                   reading_gpioa, reading_gpiob, dpad_x, dpad_y, buttons, calls,
                   switches, trainA, trainB, last,
                   cfg4_reads, true_since>>

\* a loop without the assignment of line 39
RememberedNever(byte, prev) == prev

\* line 39: __cfg4 = _cfg4, the value of __cfg4 after a read that returned byte
\* while __cfg4 was prev
Remembered(byte, prev) == byte

\* lines 33-40: one iteration of the loop that reads the register of P_CFG_4
\* (GPIOB) until it gets the value it got before; held, one of holds, is the
\* set of buttons held down and on4 the position of the 4th configuration
\* switch at the read
SetupRead(holds) ==
    /\ pc = "cfg4"
    /\ now + DEBOUNCING <= MaxTime
    /\ now' = now + DEBOUNCING
    /\ \E held \in holds, on4 \in BOOLEAN :
          LET byte == RegisterB(held, BoolToInt(on4))
          IN  /\ cfg4_reads' = Append(cfg4_reads, byte)
              /\ IF byte = setup_locals.__cfg4
                 THEN /\ setup_locals' = [setup_locals EXCEPT !._cfg4 = byte]
                      /\ pc' = "load"
                 ELSE /\ setup_locals' = [setup_locals EXCEPT !._cfg4 = byte,
                                             !.__cfg4 = Remembered(byte, @)]
                      /\ pc' = "cfg4"
    /\ UNCHANGED <<CFG, KEY1, KEY2, KEY3, TT, last_toggle_time,
                   GPIOA_state, GPIOA_previous, GPIOA_last_debounce_time,
                   GPIOB_state, GPIOB_previous, GPIOB_last_debounce_time,
                   reading_gpioa, reading_gpiob, dpad_x, dpad_y, buttons, calls,
                   switches, trainA, trainB, last, true_since>>

\* lines 41-73: compute the configuration number and load its row of MAPPINGS
\* into KEY1, KEY2 and KEY3; the locals go out of scope
SetupLoad ==
    /\ pc = "load"
    /\ LET cfg4 == BitIsZero(setup_locals._cfg4, PIN2BITMASK(P_CFG_4))
           cfg == SetupCFG(setup_locals.cfg1, setup_locals.cfg2, setup_locals.cfg3, cfg4)
       IN  /\ CFG' = cfg
           /\ \E row \in MAPPINGS(cfg) :
                 /\ KEY1' = [b \in Buttons |-> row[3 * b + 1]]
                 /\ KEY2' = [b \in Buttons |-> row[3 * b + 2]]
                 /\ KEY3' = [b \in Buttons |-> row[3 * b + 3]]
    /\ setup_locals' = NoLocals
    /\ cfg4_reads' = << >>
    /\ true_since' = SinceBoot(now)
    /\ pc' = "begin"
    /\ UNCHANGED <<now, TT, last_toggle_time,
                   GPIOA_state, GPIOA_previous, GPIOA_last_debounce_time,
                   GPIOB_state, GPIOB_previous, GPIOB_last_debounce_time,
                   reading_gpioa, reading_gpiob, dpad_x, dpad_y, buttons, calls,
                   switches, trainA, trainB, last>>

(***************************************************************************)
(* The steps of one iteration of the loop.                                 *)
(***************************************************************************)
\* lines 1-14: release all, reset the accumulator, complement the turbo toggle
Begin(steps, insteps, wrap) ==
    /\ pc = "begin"
    /\ buttons' = ReleaseAll(buttons)
    /\ calls' = << Call("releaseAll", "", -1, 0) >>
    /\ dpad_x' = 0
    /\ dpad_y' = 0
    /\ \E t11 \in Clock(wrap, now, steps) :
          IF ToggleDue(Elapsed(t11, last_toggle_time))
          THEN \E t12 \in Clock(wrap, t11, insteps) :
                  /\ last_toggle_time' = t12
                  /\ TT' = ~TT
                  /\ now' = t12
                  /\ true_since' =
                        IF wrap
                        THEN [Later(Tested(Later(true_since, Passed(now, t11)), last_toggle_time),
                                    Passed(t11, t12)) EXCEPT !.toggle = 0]
                        ELSE true_since
          ELSE /\ now' = t11
               /\ true_since' =
                     IF wrap
                     THEN Tested(Later(true_since, Passed(now, t11)), last_toggle_time)
                     ELSE true_since
               /\ UNCHANGED <<last_toggle_time, TT>>
    /\ pc' = "read"
    /\ UNCHANGED <<CFG, KEY1, KEY2, KEY3,
                   GPIOA_state, GPIOA_previous, GPIOA_last_debounce_time,
                   GPIOB_state, GPIOB_previous, GPIOB_last_debounce_time,
                   reading_gpioa, reading_gpiob, switches, trainA, trainB,
                   setup_locals, last,
                   cfg4_reads>>

\* lines 16-46: read both registers and debounce them; held is the set of
\* buttons held down when the registers are read, one of holds; the history
\* is kept when hist is true
ReadInputs(steps, holds, hist, wrap) ==
    /\ pc = "read"
    /\ \E held \in holds :
       LET ra == RegisterA(held)
           rb == RegisterB(held, CFG)
           changedA == Changed(ra, GPIOA_previous, LatchRead(GPIOA_state, ra))
           changedB == Changed(rb, GPIOB_previous, LatchRead(GPIOB_state, rb))
       IN  \E t29 \in (IF changedA THEN Clock(wrap, now, steps) ELSE {now}) :
           \E t31 \in (IF changedB THEN Clock(wrap, t29, steps) ELSE {t29}) :
           \E t34 \in Clock(wrap, t31, steps) :
           \E t39 \in Clock(wrap, t34, steps) :
           LET ldtA == IF changedA THEN t29 ELSE GPIOA_last_debounce_time
               ldtB == IF changedB THEN t31 ELSE GPIOB_last_debounce_time
               stA == Debounced(LatchRead(GPIOA_state, ra), ra, Elapsed(t34, ldtA))
               stB == Debounced(LatchRead(GPIOB_state, rb), rb, Elapsed(t39, ldtB))
           IN  /\ reading_gpioa' = ra
               /\ reading_gpiob' = rb
               /\ GPIOA_last_debounce_time' = ldtA
               /\ GPIOB_last_debounce_time' = ldtB
               /\ GPIOA_state' = stA
               /\ GPIOB_state' = stB
               /\ GPIOA_previous' = ra
               /\ GPIOB_previous' = rb
               /\ now' = t39
               /\ true_since' =
                     IF wrap
                     THEN LET d29 == Passed(now, t29)
                              d31 == Passed(t29, t31)
                              d39 == Passed(t31, t34) + Passed(t34, t39)
                          IN  [true_since EXCEPT
                                 !.toggle = Sat(@ + d29 + d31 + d39),
                                 !.A = IF changedA THEN Sat(d31 + d39)
                                       ELSE Sat(@ + d29 + d31 + d39),
                                 !.B = IF changedB THEN Sat(d39)
                                       ELSE Sat(@ + d29 + d31 + d39)]
                     ELSE true_since
               /\ trainA' = IF hist
                             THEN TrainStep(trainA, changedA, GPIOA_previous, GPIOA_state, ra, stA)
                             ELSE trainA
               /\ trainB' = IF hist
                             THEN TrainStep(trainB, changedB, GPIOB_previous, GPIOB_state, rb, stB)
                             ELSE trainB
    /\ pc' = "dispatch"
    /\ UNCHANGED <<CFG, KEY1, KEY2, KEY3, TT, last_toggle_time,
                   dpad_x, dpad_y, buttons, calls, switches, setup_locals, last,
                   cfg4_reads>>

\* lines 48-67: resolve the three slots of every pressed button
Dispatch ==
    /\ pc = "dispatch"
    /\ LET st == ButtonLoop(0, [x |-> dpad_x, y |-> dpad_y, held |-> buttons, log |-> calls],
                            GPIOA_state, GPIOB_state, TT, KEY1, KEY2, KEY3)
       IN  /\ dpad_x' = st.x
           /\ dpad_y' = st.y
           /\ buttons' = st.held
           /\ calls' = st.log
    /\ LET P == { b \in Buttons : Pressed(b, GPIOA_state, GPIOB_state) }
       IN  /\ KEY1' = TableAfter(KEY1, P)
           /\ KEY2' = TableAfter(KEY2, P)
           /\ KEY3' = TableAfter(KEY3, P)
    /\ pc' = "socd"
    /\ UNCHANGED <<now, CFG, TT, last_toggle_time,
                   GPIOA_state, GPIOA_previous, GPIOA_last_debounce_time,
                   GPIOB_state, GPIOB_previous, GPIOB_last_debounce_time,
                   reading_gpioa, reading_gpiob, switches, trainA, trainB,
                   setup_locals, last,
                   cfg4_reads, true_since>>

\* lines 69-98: basic SOCD cleaning
Socd ==
    /\ pc = "socd"
    /\ calls' = IF SocdKey(dpad_x, dpad_y) # K_NOOP
                THEN Append(calls, Call("dPad", KEYS2PAD(SocdKey(dpad_x, dpad_y)), -1, 0))
                ELSE calls
    /\ pc' = "send"
    /\ UNCHANGED <<now, CFG, KEY1, KEY2, KEY3, TT, last_toggle_time,
                   GPIOA_state, GPIOA_previous, GPIOA_last_debounce_time,
                   GPIOB_state, GPIOB_previous, GPIOB_last_debounce_time,
                   reading_gpioa, reading_gpiob, dpad_x, dpad_y, buttons,
                   switches, trainA, trainB, setup_locals, last,
                   cfg4_reads, true_since>>

\* lines 100-104: send the report (loop_end() does nothing unless DEBUG is
\* defined; the time the tick took shows in the next value of millis()); the
\* history of the tick is kept when hist is true
Send(hist) ==
    /\ pc = "send"
    /\ calls' = Append(calls, Call("loop", "", -1, 0))
    /\ pc' = "begin"
    /\ last' = IF hist
               THEN [ticks |-> 1, stateA |-> GPIOA_state, stateB |-> GPIOB_state,
                     tt |-> TT, held |-> buttons, log |-> calls]
               ELSE last
    /\ UNCHANGED <<now, CFG, KEY1, KEY2, KEY3, TT, last_toggle_time,
                   GPIOA_state, GPIOA_previous, GPIOA_last_debounce_time,
                   GPIOB_state, GPIOB_previous, GPIOB_last_debounce_time,
                   reading_gpioa, reading_gpiob, dpad_x, dpad_y, buttons,
                   switches, trainA, trainB, setup_locals,
                   cfg4_reads, true_since>>

(***************************************************************************)
(* Spec: the loop with a clock of millisecond resolution and a player who  *)
(* operates one switch, of register group A or of register group B.  The   *)
(* first millis() of a tick returns any of ClockSteps more than the last   *)
(* call, a later call of the same tick at most one millisecond more.       *)
(***************************************************************************)
ClockSteps == {0, 1, 5, 13}
InTickSteps == {0, 1}
ClockPlayers == { {4}, {0} }
ClockCfgs == {2}

Init == InitWith(ClockCfgs, ClockPlayers)

Next ==
    \/ Begin(ClockSteps, InTickSteps, FALSE)
    \/ ReadInputs(InTickSteps, SUBSET switches, TRUE, FALSE)
    \/ Dispatch
    \/ Socd
    \/ Send(FALSE)

Spec == Init /\ [][Next]_vars

(***************************************************************************)
(* SpecKeys: the loop with every remap table, a player who operates five   *)
(* switches, and a clock that advances by whole turbo periods.             *)
(***************************************************************************)
KeysSteps == {0, 14}
KeysInTickSteps == {0}
KeysPlayers == { {0, 2, 3, 4, 8} }
KeysCfgs == KnownCfg \cup {9}

InitKeys == InitWith(KeysCfgs, KeysPlayers)

NextKeys ==
    \/ Begin(KeysSteps, KeysInTickSteps, FALSE)
    \/ ReadInputs(KeysInTickSteps, SUBSET switches, FALSE, FALSE)
    \/ Dispatch
    \/ Socd
    \/ Send(FALSE)

SpecKeys == InitKeys /\ [][NextKeys]_vars

(***************************************************************************)
(* SpecSetup: setup() with every position of the four configuration        *)
(* switches, followed by the loop with a player who operates one switch.   *)
(***************************************************************************)
SetupPlayers == { {8} }
SetupSteps == {0, 14}

InitBoard == InitSetup(SetupPlayers)

NextSetup ==
    \/ SetupPins
    \/ SetupRead(SUBSET switches)
    \/ SetupLoad
    \/ Begin(SetupSteps, KeysInTickSteps, FALSE)
    \/ ReadInputs(KeysInTickSteps, SUBSET switches, FALSE, FALSE)
    \/ Dispatch
    \/ Socd
    \/ Send(FALSE)

SpecSetup == InitBoard /\ [][NextSetup]_vars

(***************************************************************************)
(* SpecCfg4: setup() with a player who operates the seven switches of      *)
(* register group B, all at once, followed by the loop.                    *)
(***************************************************************************)
Cfg4Players == { {0, 1, 2, 7, 12, 13, 14} }

InitCfg4 == InitSetup(Cfg4Players)

NextCfg4 ==
    \/ SetupPins
    \/ SetupRead({ {}, switches })
    \/ SetupLoad
    \/ Begin(SetupSteps, KeysInTickSteps, FALSE)
    \/ ReadInputs(KeysInTickSteps, { {}, switches }, FALSE, FALSE)
    \/ Dispatch
    \/ Socd
    \/ Send(FALSE)

SpecCfg4 == InitCfg4 /\ [][NextCfg4]_vars

(***************************************************************************)
(* SpecTables: the loop with every remap table of the source and a player  *)
(* who operates the six switches that have a directional slot in some      *)
(* table, in every combination, for two ticks.                             *)
(***************************************************************************)
TablesSteps == {10}
TablesPlayers == { {0, 1, 2, 3, 7, 8} }
TablesCfgs == KnownCfg

InitTables == InitWith(TablesCfgs, TablesPlayers)

NextTables ==
    \/ Begin(TablesSteps, KeysInTickSteps, FALSE)
    \/ ReadInputs(KeysInTickSteps, SUBSET switches, FALSE, FALSE)
    \/ Dispatch
    \/ Socd
    \/ Send(FALSE)

SpecTables == InitTables /\ [][NextTables]_vars

(***************************************************************************)
(* SpecTicks: the loop with the history of the tick before, two tables and *)
(* a player who operates three switches.                                   *)
(***************************************************************************)
TicksPlayers == { {3, 4, 8} }
TicksCfgs == {2, 10}

InitTicks == InitWith(TicksCfgs, TicksPlayers)

NextTicks ==
    \/ Begin(KeysSteps, KeysInTickSteps, FALSE)
    \/ ReadInputs(KeysInTickSteps, SUBSET switches, FALSE, FALSE)
    \/ Dispatch
    \/ Socd
    \/ Send(TRUE)

SpecTicks == InitTicks /\ [][NextTicks]_vars

(***************************************************************************)
(* SpecTurbo: the loop with a clock that wraps around and never stops, and *)
(* a player who holds down a switch with a turbo-flagged key.  The loop    *)
(* keeps running, and the clock keeps advancing between its iterations.    *)
(***************************************************************************)
TurboSteps == {0, 1, 5, 13}
TurboAdvance == {1, 5, 13}
TurboPlayers == { {8} }
TurboCfgs == {2}

InitTurbo == InitWith(TurboCfgs, TurboPlayers)

NextTurbo ==
    \/ Begin(TurboSteps, KeysInTickSteps, TRUE)
    \/ ReadInputs(KeysInTickSteps, {switches}, FALSE, TRUE)
    \/ Dispatch
    \/ Socd
    \/ Send(FALSE)

SpecTurbo ==
    /\ InitTurbo
    /\ [][NextTurbo]_vars
    /\ WF_vars(NextTurbo)
    /\ SF_vars(Begin(TurboAdvance, KeysInTickSteps, TRUE))

(***************************************************************************)
(* Vocabulary of the properties.                                           *)
(***************************************************************************)
Abs(k) == IF k < 0 THEN -k ELSE k

Slots == 1 .. N_KEYS_PER_BUTTON

\* the key of slot s of button b in the active tables
Slot(s, b) == IF s = 1 THEN KEY1[b] ELSE IF s = 2 THEN KEY2[b] ELSE KEY3[b]

\* button b is pressed in the current tick (meaningful once the inputs are read)
PressedNow(b) == Pressed(b, GPIOA_state, GPIOB_state)

\* the tick has finished its step
TickDone == pc = "begin" /\ calls # << >>
DispatchDone == pc \in {"socd", "send"} \/ TickDone
SocdDone == pc = "send" \/ TickDone

IsPress(c) == c.f = "press"
IsDPad(c) == c.f = "dPad"
IsLoop(c) == c.f = "loop"
IsRelease(c) == c.f = "releaseAll"

DPadCalls == SelectSeq(calls, IsDPad)

\* the direction the tick has set, "none" if it has set none
EmittedDir == IF DPadCalls = << >> THEN "none" ELSE DPadCalls[Len(DPadCalls)].arg

\* slot s of button b has made a call of NSGamepad.press in this tick
HasPress(b, s) == \E i \in DOMAIN calls : IsPress(calls[i]) /\ calls[i].b = b /\ calls[i].s = s

\* the directional slots of the pressed buttons
DirSlots == { p \in Buttons \X Slots : PressedNow(p[1]) /\ IS_DP(Abs(Slot(p[2], p[1]))) }

\* the contribution of a directional key to each axis: up = +1 on y, down = -1
\* on y, left = -1 on x, right = +1 on x, a diagonal on both axes
AxisX(k) ==
    (IF k \in {K_DP_UP_RIGHT, K_DP_RIGHT, K_DP_DOWN_RIGHT} THEN 1 ELSE 0)
    - (IF k \in {K_DP_UP_LEFT, K_DP_LEFT, K_DP_DOWN_LEFT} THEN 1 ELSE 0)

AxisY(k) ==
    (IF k \in {K_DP_UP_LEFT, K_DP_UP, K_DP_UP_RIGHT} THEN 1 ELSE 0)
    - (IF k \in {K_DP_DOWN_LEFT, K_DP_DOWN, K_DP_DOWN_RIGHT} THEN 1 ELSE 0)

Saturate(v) == IF v >= 1 THEN 1 ELSE IF v <= -1 THEN -1 ELSE v

\* position i of 1..45 is slot ((i-1) mod 3)+1 of button (i-1) div 3: the order
\* in which the loop resolves the slots
PosButton(i) == (i - 1) \div N_KEYS_PER_BUTTON
PosSlot(i) == ((i - 1) % N_KEYS_PER_BUTTON) + 1
PosKey(i) == Abs(Slot(PosSlot(i), PosButton(i)))
PosCounts(i) == PressedNow(PosButton(i)) /\ IS_DP(PosKey(i))

\* the sum of the contributions of the positions i.. to the two axes
RECURSIVE AxisSum(_)
AxisSum(i) ==
    IF i > N_KEYS_PER_BUTTON * N_BUTTONS THEN << 0, 0 >>
    ELSE LET rest == AxisSum(i + 1)
         IN  IF PosCounts(i)
             THEN << AxisX(PosKey(i)) + rest[1], AxisY(PosKey(i)) + rest[2] >>
             ELSE rest

\* the accumulator after the positions i.., each axis clamped after every
\* contribution, from the value acc
RECURSIVE AxisFold(_, _)
AxisFold(i, acc) ==
    IF i > N_KEYS_PER_BUTTON * N_BUTTONS THEN acc
    ELSE AxisFold(i + 1,
             IF PosCounts(i)
             THEN << Saturate(acc[1] + AxisX(PosKey(i))), Saturate(acc[2] + AxisY(PosKey(i))) >>
             ELSE acc)

\* the canonical direction of a vector of {-1,0,1} x {-1,0,1}
Compass ==
    << << "NSGAMEPAD_DPAD_DOWN_LEFT", "NSGAMEPAD_DPAD_DOWN", "NSGAMEPAD_DPAD_DOWN_RIGHT" >>,
       << "NSGAMEPAD_DPAD_LEFT", "NSGAMEPAD_DPAD_CENTERED", "NSGAMEPAD_DPAD_RIGHT" >>,
       << "NSGAMEPAD_DPAD_UP_LEFT", "NSGAMEPAD_DPAD_UP", "NSGAMEPAD_DPAD_UP_RIGHT" >> >>

CanonicalDir(v) == Compass[v[2] + 2][v[1] + 2]

Directions == { Compass[i][j] : i \in 1 .. 3, j \in 1 .. 3 }

(***************************************************************************)
(* Properties.                                                             *)
(***************************************************************************)

\* C1 (bounce rejection), as claimed: when the raw reading of a group changes
\* in one tick and is back at its earlier value in the next tick, less than
\* DEBOUNCING ms later by the group's debounce timer, the state of the group
\* is in both ticks the state it had before the change.
C1_BounceRejected ==
    [][ /\ (pc = "read" /\ trainA.len = 1 /\ reading_gpioa' = trainA.raw
             /\ GPIOA_last_debounce_time' - GPIOA_last_debounce_time < DEBOUNCING)
           => (GPIOA_state = trainA.st /\ GPIOA_state' = trainA.st)
        /\ (pc = "read" /\ trainB.len = 1 /\ reading_gpiob' = trainB.raw
             /\ GPIOB_last_debounce_time' - GPIOB_last_debounce_time < DEBOUNCING)
           => (GPIOB_state = trainB.st /\ GPIOB_state' = trainB.st) ]_vars

\* C2, as claimed: the direction a tick sets is the canonical direction of the
\* sums of the contributions of all directional slots of the pressed buttons,
\* each axis clamped once, after the summation.
C2_ClampAfterSum ==
    SocdDone => EmittedDir = CanonicalDir(<< Saturate(AxisSum(1)[1]), Saturate(AxisSum(1)[2]) >>)

\* C2, amended: the direction a tick sets is the canonical direction of the
\* accumulator obtained by adding the contributions of the directional slots of
\* the pressed buttons in the order of the loop (buttons 0..14, slots 1..3) and
\* clamping each axis to {-1,0,1} after every single contribution.
C2_ClampEachStep ==
    SocdDone => EmittedDir = CanonicalDir(AxisFold(1, << 0, 0 >>))

\* up and up-right pressed together: the sums are (1,2), the direction up-right
C2_Witness ==
    /\ SocdDone
    /\ AxisSum(1) = << 1, 2 >>
    /\ Cardinality(DirSlots) = 2
    /\ EmittedDir = "NSGAMEPAD_DPAD_UP_RIGHT"

\* C3: once the buttons of a tick are resolved, a slot of a pressed button that
\* holds an ordinary-button key has pressed that key iff it is not
\* turbo-flagged or TT is true; the key pressed is the slot's key and the
\* gamepad holds it.
C3_TurboGatesButtons ==
    DispatchDone =>
        \A b \in Buttons, s \in Slots :
            (PressedNow(b) /\ IS_BUTTON(Abs(Slot(s, b)))) =>
                /\ HasPress(b, s) <=> (Slot(s, b) > 0 \/ TT)
                /\ HasPress(b, s) =>
                      /\ KEYS2PAD(Abs(Slot(s, b))) \in buttons
                      /\ \A i \in DOMAIN calls :
                            (IsPress(calls[i]) /\ calls[i].b = b /\ calls[i].s = s)
                                => calls[i].arg = KEYS2PAD(Abs(Slot(s, b)))

\* button 8 with a turbo-flagged key is pressed alone while TT is true, and
\* its key is pressed
C3_Witness ==
    /\ DispatchDone
    /\ TT
    /\ \A b \in Buttons : PressedNow(b) <=> b = 8
    /\ Slot(1, 8) < 0 /\ IS_BUTTON(Abs(Slot(1, 8)))
    /\ HasPress(8, 1)

\* C4 (SOCD law): in a tick whose pressed buttons contribute exactly one left
\* and one right and no other directional key, the direction set is center.
C4_LeftRightIsCenter ==
    (/\ SocdDone
     /\ Cardinality(DirSlots) = 2
     /\ \E p \in DirSlots : Abs(Slot(p[2], p[1])) = K_DP_LEFT
     /\ \E p \in DirSlots : Abs(Slot(p[2], p[1])) = K_DP_RIGHT)
        => EmittedDir = "NSGAMEPAD_DPAD_CENTERED"

C4_Witness ==
    /\ SocdDone
    /\ DirSlots = { << 0, 1 >>, << 2, 1 >> }
    /\ Slot(1, 0) = K_DP_LEFT /\ Slot(1, 2) = K_DP_RIGHT
    /\ EmittedDir = "NSGAMEPAD_DPAD_CENTERED"

\* C5: a tick calls NSGamepad.dPad exactly once, with one of the 9 canonical
\* directions: no call before the SOCD block, one call after it.
C5_OneDirectionPerTick ==
    /\ (pc \in {"read", "dispatch", "socd"}) => DPadCalls = << >>
    /\ SocdDone => (Len(DPadCalls) = 1 /\ DPadCalls[1].arg \in Directions)

\* three ups in one tick: the sum is 3 and the tick still sets one direction
C5_Witness ==
    /\ SocdDone
    /\ AxisSum(1)[2] = 3
    /\ Len(DPadCalls) = 1

\* C6 (report replacement): in the calls of a tick releaseAll comes first and
\* only first, loop comes only last, and when the tick is done loop has been
\* called and the buttons the gamepad holds are exactly those pressed by the
\* calls of this tick.
C6_ReleaseThenPressThenSend ==
    /\ \A i \in DOMAIN calls :
          /\ IsRelease(calls[i]) <=> i = 1
          /\ IsLoop(calls[i]) => (i = Len(calls) /\ pc = "begin")
    /\ TickDone =>
          /\ IsLoop(calls[Len(calls)])
          /\ \E i \in DOMAIN calls : IsDPad(calls[i])
          /\ buttons = { calls[i].arg : i \in { j \in DOMAIN calls : IsPress(calls[j]) } }

C6_Witness ==
    /\ TickDone
    /\ Cardinality(buttons) = 2
    /\ Len(calls) = 5

\* C7: two consecutive toggles of TT are at least TURBO_PERIOD apart, by the
\* values of last_toggle_time they record.
C7_TogglesApart ==
    [][ TT' # TT =>
          TURBO_PERIOD_DEN * (last_toggle_time' - last_toggle_time) >= TURBO_PERIOD_NUM ]_vars

\* TT has been toggled twice
C7_Witness == ~TT /\ last_toggle_time > 0

\* C8 (settle correctness): after the debouncing block of a tick, a group
\* whose last raw transition is at least DEBOUNCING ms old has the raw reading
\* of this tick as its state.
C8_Settled ==
    pc = "dispatch" =>
        /\ (now - GPIOA_last_debounce_time >= DEBOUNCING) => GPIOA_state = reading_gpioa
        /\ (now - GPIOB_last_debounce_time >= DEBOUNCING) => GPIOB_state = reading_gpiob

\* the switch of a group was closed exactly DEBOUNCING ms ago and is the state
C8_Witness ==
    /\ pc = "dispatch"
    /\ GPIOA_last_debounce_time > 0
    /\ now - GPIOA_last_debounce_time = DEBOUNCING
    /\ GPIOA_state = reading_gpioa
    /\ reading_gpioa # 255

\* C9 (fail-safe under endless bounce), as claimed: while the raw reading of a
\* group has differed from the reading before in every tick since a run of
\* changes began, the state of the group is the state it had before the run.
C9_BounceKeepsState ==
    /\ trainA.len >= 1 => GPIOA_state = trainA.st
    /\ trainB.len >= 1 => GPIOB_state = trainB.st

\* the tables with the turbo flags of the directional keys removed
Unflagged(KEYID) ==
    [b \in Buttons |-> IF IS_DP(Abs(KEYID[b])) THEN Abs(KEYID[b]) ELSE KEYID[b]]

\* C10: the direction a tick sets is the one it would set with the opposite
\* value of TT and with no directional slot turbo-flagged.
C10_DirectionIgnoresTurbo ==
    SocdDone =>
        LET st == ButtonLoop(0, [x |-> 0, y |-> 0, held |-> {}, log |-> << >>],
                             GPIOA_state, GPIOB_state, ~TT,
                             Unflagged(KEY1), Unflagged(KEY2), Unflagged(KEY3))
        IN  EmittedDir = KEYS2PAD(SocdKey(st.x, st.y))

\* a button whose only directional slot is a turbo-flagged left is pressed
\* alone while TT is false, and the direction is left
C10_Witness ==
    /\ SocdDone
    /\ ~TT
    /\ DirSlots = { << CustomButton, 1 >> }
    /\ Slot(1, CustomButton) = -K_DP_LEFT
    /\ EmittedDir = "NSGAMEPAD_DPAD_LEFT"

\* the buttons whose three slots are all K_NOOP in the active tables
NoopButtons == { b \in Buttons : \A s \in Slots : IS_NOOP(Slot(s, b)) }

\* a register with the bit of the mask set (the switch of the bit open)
WithBitSet(byte, mask) == IF BitIsZero(byte, mask) THEN byte + mask ELSE byte

\* the states of the two groups with the buttons of R released
RECURSIVE ReleasedA(_, _)
ReleasedA(R, stateA) ==
    IF R = {} THEN stateA
    ELSE LET b == CHOOSE c \in R : TRUE
             p == BUTTON2MCP[b + 1]
         IN  ReleasedA(R \ {b}, IF IS_GPIOA_PIN(p) THEN WithBitSet(stateA, PIN2BITMASK(p)) ELSE stateA)

RECURSIVE ReleasedB(_, _)
ReleasedB(R, stateB) ==
    IF R = {} THEN stateB
    ELSE LET b == CHOOSE c \in R : TRUE
             p == BUTTON2MCP[b + 1]
         IN  ReleasedB(R \ {b}, IF IS_GPIOA_PIN(p) THEN stateB ELSE WithBitSet(stateB, PIN2BITMASK(p)))

\* C11: once the buttons of a tick are resolved, no slot of a pressed button
\* whose three slots are all K_NOOP has called NSGamepad.press, and dpad_x,
\* dpad_y and the buttons the gamepad holds are what the loop yields with these
\* buttons released, whatever TT is.
C11_NoopButtonIsInert ==
    DispatchDone =>
        LET R == { b \in NoopButtons : PressedNow(b) }
            st == ButtonLoop(0, [x |-> 0, y |-> 0, held |-> {}, log |-> << >>],
                             ReleasedA(R, GPIOA_state), ReleasedB(R, GPIOB_state),
                             TT, KEY1, KEY2, KEY3)
        IN  /\ \A b \in R, s \in Slots : ~HasPress(b, s)
            /\ dpad_x = st.x /\ dpad_y = st.y
            /\ buttons = st.held

\* a button with three K_NOOP slots is pressed while TT is true, together with
\* a button that contributes left and a button that presses a key
C11_Witness ==
    /\ DispatchDone
    /\ TT
    /\ CustomButton \in NoopButtons
    /\ PressedNow(CustomButton)
    /\ dpad_x = -1
    /\ buttons # {}

\* the keys a sequence of NSGamepad calls has pressed, and the direction it
\* has set last ("none" if it has set none)
PressedKeys(log) == { log[i].arg : i \in { j \in DOMAIN log : IsPress(log[j]) } }

DirOf(log) ==
    LET d == SelectSeq(log, IsDPad)
    IN  IF d = << >> THEN "none" ELSE d[Len(d)].arg

\* the tick about to send its report has seen the pressed set and the turbo
\* toggle that the tick before saw
SameAsTickBefore ==
    /\ pc = "send"
    /\ last.ticks = 1
    /\ last.stateA = GPIOA_state /\ last.stateB = GPIOB_state
    /\ last.tt = TT

\* C12 (idempotence): a tick that sees the pressed set and the TT of the tick
\* before presses the same keys and sets the same direction as the tick
\* before; and the keys and the direction of every tick are those that the
\* button loop and the SOCD chain yield from the pressed set, the tables and
\* TT alone, starting from no key held and the accumulator (0,0).
C12_Idempotent ==
    /\ SameAsTickBefore =>
          /\ buttons = last.held
          /\ PressedKeys(calls) = PressedKeys(last.log)
          /\ DirOf(calls) = DirOf(last.log)
    /\ pc = "send" =>
          LET st == ButtonLoop(0, [x |-> 0, y |-> 0, held |-> {}, log |-> << >>],
                               GPIOA_state, GPIOB_state, TT, KEY1, KEY2, KEY3)
          IN  /\ buttons = st.held
              /\ PressedKeys(calls) = st.held
              /\ DirOf(calls) = KEYS2PAD(SocdKey(st.x, st.y))

\* two ticks in a row with TT true and the same three buttons pressed: both
\* press Y and the turbo-flagged X and set the direction up
C12_Witness ==
    /\ SameAsTickBefore
    /\ TT
    /\ \A b \in Buttons : PressedNow(b) <=> b \in {3, 4, 8}
    /\ buttons = {"NSButton_X", "NSButton_Y"}
    /\ DirOf(calls) = "NSGAMEPAD_DPAD_UP"

\* the turbo-flagged ordinary-button slots of the pressed buttons
TurboSlots ==
    { p \in Buttons \X Slots :
        PressedNow(p[1]) /\ Slot(p[2], p[1]) < 0 /\ IS_BUTTON(Abs(Slot(p[2], p[1]))) }

\* C13: TT is written only by the first step of a tick, before the button
\* loop; and once the buttons of a tick are resolved, all turbo-flagged
\* ordinary-button slots of the pressed buttons have observed the same TT, the
\* one of the state: either all of them have pressed their key or none has.
C13_OnePhasePerTick ==
    /\ [][pc # "begin" => TT' = TT]_vars
    /\ [](DispatchDone => \A p \in TurboSlots : HasPress(p[1], p[2]) <=> TT)

\* two turbo-flagged slots are resolved in one tick with TT true, and both
\* have pressed their key
C13_Witness ==
    /\ DispatchDone
    /\ TT
    /\ Cardinality(TurboSlots) = 2
    /\ \A p \in TurboSlots : HasPress(p[1], p[2])
    /\ {"NSButton_A", "NSButton_B"} \subseteq buttons

\* setup() is running
InSetup == pc \in {"setup", "cfg4", "load"}

\* C14: the configuration number is in 0 .. N_REMAPPINGS-1 in every state,
\* whatever the four configuration inputs are: before setup() computes it,
\* when it is computed (the value line 44 is about to assign) and afterwards.
C14_CfgInRange ==
    /\ CFG \in 0 .. (N_REMAPPINGS - 1)
    /\ pc = "load" =>
          SetupCFG(setup_locals.cfg1, setup_locals.cfg2, setup_locals.cfg3,
                   BitIsZero(setup_locals._cfg4, PIN2BITMASK(P_CFG_4)))
              \in 0 .. (N_REMAPPINGS - 1)

\* setup() has found the four configuration switches on and computed 15
C14_Witness ==
    /\ ~InSetup
    /\ CFG = N_REMAPPINGS - 1

\* C15: once setup() is over no step of the loop changes the configuration
\* number or the active slot tables KEY1, KEY2, KEY3 (MAPPINGS, BUTTON2MCP and
\* KEYS2PAD are constants of the model: no statement of the loop assigns them).
C15_TablesFrozen ==
    [][~InSetup => UNCHANGED <<CFG, KEY1, KEY2, KEY3>>]_vars

\* a tick has resolved the turbo-flagged key of button 8 and pressed it, and
\* the entry of the table is still the turbo-flagged key
C15_Witness ==
    /\ TickDone
    /\ CFG = 2
    /\ KEY1[8] = -K_X
    /\ "NSButton_X" \in buttons

\* C16: a tick in which no button is pressed sets the direction center and
\* calls NSGamepad.press for no key, so that the gamepad holds no button,
\* whatever the configuration and TT are.
C16_NothingPressed ==
    (SocdDone /\ \A b \in Buttons : ~PressedNow(b)) =>
        /\ EmittedDir = "NSGAMEPAD_DPAD_CENTERED"
        /\ \A i \in DOMAIN calls : ~IsPress(calls[i])
        /\ buttons = {}

\* no button is pressed in a tick with TT true, while the bit of the 4th
\* configuration switch is 0 in the state of group B
C16_Witness ==
    /\ SocdDone
    /\ TT
    /\ \A b \in Buttons : ~PressedNow(b)
    /\ BitIsZero(GPIOB_state, PIN2BITMASK(P_CFG_4))
    /\ EmittedDir = "NSGAMEPAD_DPAD_CENTERED"

\* the slots of the pressed buttons that hold an ordinary-button key which is
\* not turbo-flagged, or is turbo-flagged while TT is true
DueSlots ==
    { p \in Buttons \X Slots :
        /\ PressedNow(p[1])
        /\ IS_BUTTON(Abs(Slot(p[2], p[1])))
        /\ (Slot(p[2], p[1]) > 0 \/ TT) }

\* C17 (macro combos): once the buttons of a tick are resolved, the keys
\* pressed by the calls of the tick, and held by the gamepad, are exactly the
\* keys of the due slots of the pressed buttons, with one call of
\* NSGamepad.press for each due slot (so that a key of several slots is pressed
\* several times, and a button presses as many keys as it has due slots).
C17_MacroCombos ==
    DispatchDone =>
        /\ PressedKeys(calls) = { KEYS2PAD(Abs(Slot(p[2], p[1]))) : p \in DueSlots }
        /\ buttons = PressedKeys(calls)
        /\ Len(SelectSeq(calls, IsPress)) = Cardinality(DueSlots)
        /\ \A p \in DueSlots : HasPress(p[1], p[2])

\* one button presses three keys and another button presses one of them again
C17_Witness ==
    /\ DispatchDone
    /\ Cardinality({ p \in DueSlots : p[1] = CustomButton }) = 3
    /\ Cardinality(DueSlots) = 4
    /\ buttons = {"NSButton_A", "NSButton_B", "NSButton_X"}

\* C18: the first step of a tick complements TT iff the time since
\* last_toggle_time is at least TURBO_PERIOD, and then sets last_toggle_time to
\* the current time; otherwise it leaves both unchanged; and no other step of
\* the tick writes TT or last_toggle_time (at most one toggle per tick).
C18_ToggleOncePerTick ==
    [][ /\ pc = "begin" =>
              /\ (TT' # TT) <=> (TURBO_PERIOD_DEN * (now' - last_toggle_time) >= TURBO_PERIOD_NUM)
              /\ (TT' # TT) => last_toggle_time' = now'
              /\ (TT' = TT) => last_toggle_time' = last_toggle_time
        /\ pc # "begin" => (TT' = TT /\ last_toggle_time' = last_toggle_time) ]_vars

\* a tick has begun less than TURBO_PERIOD after a toggle and has left TT true
C18_Witness ==
    /\ pc = "read"
    /\ TT
    /\ now - last_toggle_time = 13

\* C20: the step that reads the inputs sets the debounce timer of a group to
\* the current time (a value of millis() within the step) iff the raw reading
\* of the group differs from the raw reading of the tick before, and leaves it
\* unchanged otherwise, for each group on its own; it stores the raw reading as
\* the previous one; no other step writes the timers or the previous readings.
C20_TimerPerGroup ==
    [][ /\ pc = "read" =>
              /\ (reading_gpioa' # GPIOA_previous) =>
                     (now <= GPIOA_last_debounce_time' /\ GPIOA_last_debounce_time' <= now')
              /\ (reading_gpioa' = GPIOA_previous) =>
                     GPIOA_last_debounce_time' = GPIOA_last_debounce_time
              /\ (reading_gpiob' # GPIOB_previous) =>
                     (now <= GPIOB_last_debounce_time' /\ GPIOB_last_debounce_time' <= now')
              /\ (reading_gpiob' = GPIOB_previous) =>
                     GPIOB_last_debounce_time' = GPIOB_last_debounce_time
              /\ GPIOA_previous' = reading_gpioa'
              /\ GPIOB_previous' = reading_gpiob'
        /\ pc # "read" =>
              UNCHANGED <<GPIOA_last_debounce_time, GPIOB_last_debounce_time,
                          GPIOA_previous, GPIOB_previous>> ]_vars

\* the reading of group A has changed in this tick, after an earlier change,
\* and has re-armed the timer of group A; the timer of group B has never been
\* armed
C20_Witness ==
    /\ pc = "dispatch"
    /\ trainA.len = 1
    /\ trainA.raw # 255
    /\ GPIOA_last_debounce_time > DEBOUNCING
    /\ GPIOB_last_debounce_time = 0

\* C19 (turbo liveness): while button 8, whose key is the turbo-flagged X, is
\* held down, the loop keeps running and the clock keeps advancing, TT is true
\* infinitely often and false infinitely often, and infinitely many ticks end
\* with X pressed and infinitely many with X not pressed.
C19_TurboLiveness ==
    /\ []<>TT
    /\ []<>(~TT)
    /\ []<>(TickDone /\ PressedNow(8) /\ "NSButton_X" \in buttons)
    /\ []<>(TickDone /\ PressedNow(8) /\ "NSButton_X" \notin buttons)

\* the clock has wrapped around, and a tick with button 8 held down has
\* pressed X
C19_Witness ==
    /\ TickDone
    /\ now < last_toggle_time
    /\ PressedNow(8)
    /\ Slot(1, 8) = -K_X
    /\ TT
    /\ "NSButton_X" \in buttons

\* C21, as claimed: when the cfg4 loop of setup() has exited, the byte from
\* which cfg4 is derived is the value of the last two reads of the register.
C21_TwoEqualReads ==
    pc = "load" =>
        /\ Len(cfg4_reads) >= 2
        /\ cfg4_reads[Len(cfg4_reads)] = setup_locals._cfg4
        /\ cfg4_reads[Len(cfg4_reads) - 1] = setup_locals._cfg4

\* C22: the cfg4 loop of setup() exits at the first read that returns the
\* value of the read before it (or 0x00 as the first read): while the loop is
\* running every read has differed from the one before, so that once the
\* register holds a constant value the loop exits at the second read of it at
\* the latest; and when it has exited, the last read is the only one that
\* repeated its predecessor.
C22_ExitsOnRepeat ==
    LET n == Len(cfg4_reads)
        Repeats(i) == IF i = 1 THEN cfg4_reads[1] = 0 ELSE cfg4_reads[i] = cfg4_reads[i - 1]
    IN  /\ pc = "cfg4" => \A i \in 1 .. n : ~Repeats(i)
        /\ pc = "load" => (n >= 1 /\ Repeats(n) /\ \A i \in 1 .. (n - 1) : ~Repeats(i))

\* the register changed twice and then held its value: the loop has exited at
\* the second read of that value, the fourth read in all
C22_Witness ==
    /\ pc = "load"
    /\ Len(cfg4_reads) = 4
    /\ cfg4_reads[1] # cfg4_reads[2]
    /\ cfg4_reads[2] # cfg4_reads[3]
    /\ cfg4_reads[3] = cfg4_reads[4]

\* the tables k1, k2, k3 hold the slots of a row of MAPPINGS[cfg]: entry 3b of
\* the row (the (3b+1)-th) is k1[b], entry 3b+1 is k2[b], entry 3b+2 is k3[b]
RowLoaded(cfg, k1, k2, k3) ==
    \E row \in MAPPINGS(cfg) :
        \A b \in Buttons :
            /\ k1[b] = row[3 * b + 1]
            /\ k2[b] = row[3 * b + 2]
            /\ k3[b] = row[3 * b + 3]

\* the configuration number of the four inputs: bit i is 1 iff input i is LOW;
\* the 4th input is LOW iff bit 6 of the byte read from GPIOB is 0
DecodedCfg(loc) ==
    8 * (IF loc.cfg1 THEN 1 ELSE 0) + 4 * (IF loc.cfg2 THEN 1 ELSE 0)
    + 2 * (IF loc.cfg3 THEN 1 ELSE 0) + (IF (loc._cfg4 \div 64) % 2 = 0 THEN 1 ELSE 0)

\* C23: the last step of setup() sets CFG to 8*bit1 + 4*bit2 + 2*bit3 + bit4
\* and loads the row MAPPINGS[CFG] into KEY1, KEY2, KEY3; and in every state
\* after setup() the three tables hold the row of the configuration number.
C23_DecodeAndLoad ==
    /\ [][pc = "load" => (CFG' = DecodedCfg(setup_locals) /\ RowLoaded(CFG', KEY1', KEY2', KEY3'))]_vars
    /\ [](~InSetup => RowLoaded(CFG, KEY1, KEY2, KEY3))

\* the 1st and the 3rd switch are on: the configuration number is 10 and the
\* tables hold the row of remap10
C23_Witness ==
    /\ ~InSetup
    /\ CFG = 10
    /\ KEY1[8] = K_A /\ KEY2[8] = K_DP_UP /\ KEY3[8] = K_NOOP
    /\ KEY1[14] = K_HOME

\* bit i of a byte
PinBit(byte, i) == (byte \div (2 ^ i)) % 2

\* the buttons whose bit (pin mod 8) is 0 in the state of their group: GPIOA
\* for the pins 0..7, GPIOB for the pins 8..15
DecodedPressed ==
    { b \in Buttons :
        LET p == BUTTON2MCP[b + 1]
        IN  PinBit(IF p <= 7 THEN GPIOA_state ELSE GPIOB_state, p % 8) = 0 }

\* the three slots of the buttons of P resolved in the order of the buttons
RECURSIVE ResolveSet(_, _, _)
ResolveSet(b, st, P) ==
    IF b >= N_BUTTONS THEN st
    ELSE ResolveSet(b + 1,
             IF b \in P
             THEN HANDLE_KEY(KEY3, 3, b, TT, HANDLE_KEY(KEY2, 2, b, TT, HANDLE_KEY(KEY1, 1, b, TT, st)))
             ELSE st,
             P)

\* C24: BUTTON2MCP maps the buttons to distinct pins of 0..15 other than
\* P_CFG_4; the buttons a tick resolves are exactly those whose bit is 0 in
\* the state of their group; these are buttons the player holds down, and
\* once the registers are read the two states are the registers of exactly
\* these buttons, whatever the bit of the configuration switch is.
C24_ButtonBits ==
    /\ \A b \in Buttons : BUTTON2MCP[b + 1] \in (0 .. 15) \ {P_CFG_4}
    /\ \A b \in Buttons, c \in Buttons : b # c => BUTTON2MCP[b + 1] # BUTTON2MCP[c + 1]
    /\ DecodedPressed \subseteq switches
    /\ (pc = "dispatch" \/ DispatchDone) =>
          /\ GPIOA_state = RegisterA(DecodedPressed)
          /\ GPIOB_state = RegisterB(DecodedPressed, CFG)
    /\ DispatchDone =>
          LET st == ResolveSet(0, [x |-> 0, y |-> 0, held |-> {}, log |-> << >>], DecodedPressed)
          IN  /\ dpad_x = st.x /\ dpad_y = st.y
              /\ buttons = st.held
              /\ SelectSeq(calls, IsPress) = st.log

\* a button of group A and a button of group B are pressed while the bit of
\* the configuration switch is 0 in the state of group B
C24_Witness ==
    /\ DispatchDone
    /\ CFG % 2 = 1
    /\ PinBit(GPIOB_state, P_CFG_4 % 8) = 0
    /\ DecodedPressed = {0, 8}
    /\ buttons # {}
    /\ dpad_x = -1

\* the slot table of number s
SlotTable(s) == IF s = 1 THEN KEY1 ELSE IF s = 2 THEN KEY2 ELSE KEY3

\* the values <<dpad_x, dpad_y>> has before the HANDLE_KEY expansion of
\* position i and after each of the expansions of the positions i.., from st
RECURSIVE AccTrace(_, _)
AccTrace(i, st) ==
    IF i > N_KEYS_PER_BUTTON * N_BUTTONS THEN { << st.x, st.y >> }
    ELSE { << st.x, st.y >> } \cup
         AccTrace(i + 1,
             IF PressedNow(PosButton(i))
             THEN HANDLE_KEY(SlotTable(PosSlot(i)), PosSlot(i), PosButton(i), TT, st)
             ELSE st)

\* C25: dpad_x and dpad_y are in {-1, 0, 1} in every state of the loop, and,
\* when the button loop is about to run, before and after every HANDLE_KEY
\* expansion it is going to make.
C25_AccumulatorRange ==
    /\ dpad_x \in -1 .. 1
    /\ dpad_y \in -1 .. 1
    /\ pc = "dispatch" =>
          \A v \in AccTrace(1, [x |-> dpad_x, y |-> dpad_y, held |-> buttons, log |-> calls]) :
              v[1] \in -1 .. 1 /\ v[2] \in -1 .. 1

\* two lefts and two ups are resolved in one tick, and the SOCD block is
\* reached with the accumulator (-1, 1)
C25_Witness ==
    /\ pc = "socd"
    /\ AxisSum(1) = << -2, 2 >>
    /\ dpad_x = -1
    /\ dpad_y = 1

\* C26: with a remap table of the source (remap00..remap08, remap10) and any
\* set of pressed buttons, the direction the tick sets, obtained by HANDLE_KEY
\* clamping after every contribution in index order, is the canonical
\* direction of the sums of all contributions clamped once at the end.  Every
\* directional slot of these tables belongs to a button the player operates,
\* so the pressed sets cover every combination of directional contributions.
C26_OrderIrrelevant ==
    /\ \A c \in KnownCfg : \A t \in MAPPINGS(c) : \A i \in DOMAIN t :
          IS_DP(Abs(t[i])) => \E p \in TablesPlayers : PosButton(i) \in p
    /\ (CFG \in KnownCfg /\ SocdDone) =>
          LET once == << Saturate(AxisSum(1)[1]), Saturate(AxisSum(1)[2]) >>
          IN  /\ << dpad_x, dpad_y >> = once
              /\ AxisFold(1, << 0, 0 >>) = once
              /\ EmittedDir = CanonicalDir(once)

\* remap10 with down, up and the two combo buttons pressed: the contributions
\* to the y axis are -1, +1, +1, +1, the accumulator is clamped on the way,
\* and the tick sets up, the direction of the sum 2
C26_Witness ==
    /\ SocdDone
    /\ CFG = 10
    /\ PressedNow(1) /\ PressedNow(3) /\ PressedNow(7) /\ PressedNow(8)
    /\ AxisSum(1) = << 0, 2 >>
    /\ EmittedDir = "NSGAMEPAD_DPAD_UP"

\* C27 (timer wrap-around): with a clock that counts modulo ClockWrap, the
\* unsigned differences now - last_toggle_time and now - GPIOx_last_debounce_time
\* are the true times since the timers were set, as long as these are below
\* ClockWrap.
C27_ElapsedIsTrue ==
    /\ true_since.toggle < ClockWrap => Elapsed(now, last_toggle_time) = true_since.toggle
    /\ true_since.A < ClockWrap => Elapsed(now, GPIOA_last_debounce_time) = true_since.A
    /\ true_since.B < ClockWrap => Elapsed(now, GPIOB_last_debounce_time) = true_since.B

\* C27 (toggles): the first step of a tick complements TT iff the true time
\* since the last toggle, below ClockWrap, has reached TURBO_PERIOD; so two
\* toggles are never closer than TURBO_PERIOD, with or without a wrap of the
\* clock between them.
C27_ToggleOnTrueTime ==
    [][ /\ (pc = "begin" /\ true_since'.at11 < ClockWrap) =>
              ((TT' # TT) <=> (TURBO_PERIOD_DEN * true_since'.at11 >= TURBO_PERIOD_NUM))
        /\ (TT' # TT) => TURBO_PERIOD_DEN * true_since'.at11 >= TURBO_PERIOD_NUM ]_vars

C27_WrapAround == []C27_ElapsedIsTrue /\ C27_ToggleOnTrueTime

\* the clock has wrapped around since the last toggle, the true time since
\* that toggle has reached TURBO_PERIOD, and the tick has toggled
C27_Witness ==
    /\ pc = "read"
    /\ now < true_since.from
    /\ last_toggle_time = now
    /\ true_since.toggle = 0
    /\ TURBO_PERIOD_DEN * true_since.at11 >= TURBO_PERIOD_NUM

\* the keys that are neither ordinary buttons nor one of the 8 directions nor
\* K_NOOP: K_DP_CENTER and the stick keys
InertKeys == {K_DP_CENTER} \cup (K_LS_UP .. K_RS_CENTER)

\* a slot table with K_NOOP in place of the inert keys
WithoutInert(KEYID) ==
    [b \in Buttons |-> IF Abs(KEYID[b]) \in InertKeys THEN K_NOOP ELSE KEYID[b]]

\* C28: a slot whose magnitude is K_DP_CENTER or a stick key makes no call of
\* NSGamepad.press and leaves dpad_x and dpad_y unchanged, turbo-flagged or
\* not, for both values of TT: HANDLE_KEY of such a key, from the state in which
\* the button loop starts, changes nothing; and a tick has made the calls and
\* has the accumulator it would have with K_NOOP in place of these slots.
C28_InertKeys ==
    /\ pc = "dispatch" =>
          LET st == [x |-> dpad_x, y |-> dpad_y, held |-> buttons, log |-> calls]
          IN  \A k \in InertKeys, tt \in BOOLEAN, s \in Slots :
                  /\ HANDLE_KEY([b \in Buttons |-> k], s, 0, tt, st) = st
                  /\ HANDLE_KEY([b \in Buttons |-> -k], s, 0, tt, st) = st
    /\ DispatchDone =>
          LET st == ButtonLoop(0, [x |-> 0, y |-> 0, held |-> {}, log |-> << >>],
                               GPIOA_state, GPIOB_state, TT,
                               WithoutInert(KEY1), WithoutInert(KEY2), WithoutInert(KEY3))
          IN  /\ \A b \in Buttons, s \in Slots :
                    Abs(Slot(s, b)) \in InertKeys => ~HasPress(b, s)
              /\ dpad_x = st.x /\ dpad_y = st.y
              /\ buttons = st.held
              /\ SelectSeq(calls, IsPress) = st.log

\* a button whose first slot is a turbo-flagged stick key is pressed while TT
\* is true, together with the button that contributes left: the slot has made
\* no call and the accumulator is (-1, 0)
C28_Witness ==
    /\ DispatchDone
    /\ TT
    /\ PressedNow(CustomButton)
    /\ Slot(1, CustomButton) = -K_LS_UP
    /\ PressedNow(0)
    /\ dpad_x = -1 /\ dpad_y = 0
    /\ ~HasPress(CustomButton, 1)

====
